---- MODULE Spec2Model ----
(***************************************************************************)
(* Model of the dependency-insight CLI (src/index.js): the tree view       *)
(* (visualizeTree / printDependencyTree), the size view (analyzeSize /     *)
(* getTotalSizeInMB) and the suggestion view (suggestAlternatives).        *)
(*                                                                         *)
(* JSON values are records [kind, str, ents]: a string, or an object whose *)
(* ents is the sequence of <<key, value>> pairs in Object.entries order.   *)
(* Sizes: a JavaScript number holding megabytes with two decimals is the   *)
(* integer number of hundredths of a megabyte; a running byte total that   *)
(* may hold fractions (h * 0.01 * 1048576) is kept in units of 1/25 byte,  *)
(* in which 0.01 MB = 262144 units.                                        *)
(***************************************************************************)
EXTENDS Integers, Sequences, FiniteSets, TLC

VARIABLES
  cmd,          \* args[0] of main ("scan": getTotalSizeInMB alone)
  result,       \* what execCommand("npm list --json") returned
  manifests,    \* disk: node_modules/<name>/package.json, per package name
  disk,         \* disk: node_modules/<name>, per package name
  pc,           \* position of the running command
  stack,        \* tree view: the active printDependencyTree calls, innermost last
  out,          \* lines written to stdout by console.log
  errs,         \* lines written to stderr by console.warn / console.error
  packageSizes, \* size view: the records built so far / the final ledger
  idx,          \* size and suggestion views: index of the next dependency
  suggestions,  \* suggestion view: the messages pushed so far
  dirArg,       \* getTotalSizeInMB alone: the directory it is applied to
  scanned,      \* getTotalSizeInMB alone: what it returned
  packageJson,  \* health check: the project's package.json
  repos,        \* health check: the repository field of node_modules/<name>/package.json
  net,          \* health check: the HTTP requests in flight
  events,       \* health check: the requests sent and completed and the timers fired, in order
  selected,     \* update and prune: the packages ticked at the checkbox prompt
  ran           \* update and prune: the npm commands run so far, each with its outcome

vars == <<cmd, result, manifests, disk, pc, stack, out, errs, packageSizes,
          idx, suggestions, dirArg, scanned, packageJson, repos, net, events,
          selected, ran>>

\* The state of the health check and of the update and prune flows.
flowVars == <<packageJson, repos, net, events, selected, ran>>

\* The views neither read a manifest for the health check nor run npm commands.
FlowIdle ==
  /\ packageJson = <<>>
  /\ repos = <<>>
  /\ net = {}
  /\ events = <<>>
  /\ selected = <<>>
  /\ ran = <<>>

\* ------------------------------------------------------------------ bounds

\* Most package nodes (the root not counted) in an input tree.
MaxNodes == 3

\* ------------------------------------------------------------ JSON values

Str(s) == [kind |-> "str", str |-> s, ents |-> <<>>]

Obj(e) == [kind |-> "obj", str |-> "", ents |-> e]

Undefined == [kind |-> "undefined", str |-> "", ents |-> <<>>]

\* v[key] for a key that is an own property or absent (strings have no such key).
Get(v, key) ==
  IF v.kind = "obj" /\ \E i \in 1..Len(v.ents) : v.ents[i][1] = key
  THEN v.ents[CHOOSE i \in 1..Len(v.ents) : v.ents[i][1] = key][2]
  ELSE Undefined

\* JavaScript truthiness of a value.
Truthy(v) == v.kind = "obj" \/ (v.kind = "str" /\ v.str # "")

\* Object.keys(v) of an object.
Keys(v) == [i \in 1..Len(v.ents) |-> v.ents[i][1]]

SeqRange(s) == {s[i] : i \in 1..Len(s)}

\* --------------------------------------------------------- the input trees

PkgNames == {"a", "b"}

Versions == {"1.0.0", ""}     \* "" : the node has no version field

\* One package node as npm reports it: optional version, optional dependencies.
PkgInfo(ver, hasDeps, forest) ==
  Obj((IF ver = "" THEN <<>> ELSE << <<"version", Str(ver)>> >>)
      \o (IF hasDeps THEN << <<"dependencies", Obj(forest)>> >> ELSE <<>>))

RECURSIVE NodeCount(_)
\* Number of package nodes of a dependencies map (a sequence of <<name, info>>).
ForestCount(f) ==
  IF Len(f) = 0 THEN 0
  ELSE LET SumFrom[i \in 1..(Len(f) + 1)] ==
             IF i > Len(f) THEN 0 ELSE NodeCount(f[i][2]) + SumFrom[i + 1]
       IN SumFrom[1]
\* Number of package nodes of a node: itself and those under its dependencies.
NodeCount(info) ==
  1 + (IF Get(info, "dependencies").kind = "obj"
       THEN ForestCount(Get(info, "dependencies").ents) ELSE 0)

RECURSIVE Forests(_)
\* Package nodes with at most n nodes in all.
Infos(n) ==
  IF n = 0 THEN {}
  ELSE {PkgInfo(v, FALSE, <<>>) : v \in Versions}
       \cup {PkgInfo(v, TRUE, f) : v \in Versions, f \in Forests(n - 1)}
\* Dependencies maps with at most m nodes in all, sibling names distinct.
Forests(m) ==
  {<<>>} \cup
  UNION { UNION { { << <<nm, i>> >> \o r :
                      r \in {x \in Forests(m - NodeCount(i)) :
                               nm \notin SeqRange(Keys(Obj(x)))} } :
                  i \in Infos(m) } :
          nm \in PkgNames }

\* The objects `npm list --json` can hand over, of at most n package nodes: with
\* or without the project's own name and version fields, with or without a
\* dependencies field.
Results(n) ==
  LET meta == << <<"version", Str("1.0.0")>>, <<"name", Str("proj")>> >>
  IN  {Obj(m \o d) :
         m \in {<<>>, meta},
         d \in {<<>>} \cup {<< <<"dependencies", Obj(f)>> >> : f \in Forests(n)}}

\* execCommand returned null: the command failed and printed no JSON (line 52).
Null == [kind |-> "null", str |-> "", ents |-> <<>>]

\* ------------------------------------------------- package manifests on disk

\* node_modules/<name>/package.json: unreadable (absent or malformed), or readable
\* with its peerDependencies in Object.entries order (none: <<>>).
NoManifest == [readable |-> FALSE, peers |-> <<>>]

Manifest(p) == [readable |-> TRUE, peers |-> p]

ManifestTables ==
  { [n \in PkgNames |-> NoManifest],
    [n \in PkgNames |-> IF n = "a" THEN Manifest(<<>>) ELSE NoManifest],
    [n \in PkgNames |-> IF n = "a" THEN Manifest(<< <<"react", "^17">> >>)
                                   ELSE Manifest(<<>>)],
    [n \in PkgNames |-> IF n = "a"
                        THEN Manifest(<< <<"react", "^17">>, <<"vue", "^3">> >>)
                        ELSE Manifest(<< <<"react", "^18">> >>)] }

\* JSON.parse(fs.readFileSync(depPath)) of line 316; a name with no directory
\* under node_modules makes readFileSync throw.
ReadManifest(name) ==
  IF name \in DOMAIN manifests THEN manifests[name] ELSE NoManifest

\* ------------------------------------------------------------- tree view
\* out holds the lines of the view's body; the blue banner line each command
\* prints first is left out.  A line carries, beside what is printed (indent,
\* name, version), the path of keys from the root object to the entry it was
\* printed for: the path is not printed, it tells the claims which node of the
\* input a line belongs to.

NodeLine(level, name, version, path) ==
  [kind |-> "node", indent |-> level, name |-> name, version |-> version,
   path |-> path]

PeerLine(level, peer, range, path) ==
  [kind |-> "peer", indent |-> level + 1, name |-> peer, version |-> range,
   path |-> path]

\* const version = info.version || "unknown"   (line 305)
VersionOf(info) ==
  IF Truthy(Get(info, "version")) THEN Get(info, "version").str ELSE "unknown"

\* The peer annotation lines of lines 315-328 for the package called name.
PeerLines(level, name, path) ==
  LET m == ReadManifest(name)
  IN  IF m.readable
      THEN [i \in 1..Len(m.peers) |->
              PeerLine(level, m.peers[i][1], m.peers[i][2], path)]
      ELSE <<>>

\* One call printDependencyTree(deps, level), at entry idx of Object.entries(deps).
Frame(deps, level, path) ==
  [deps |-> deps, level |-> level, idx |-> 1, path |-> path]

Top == stack[Len(stack)]

Advance(s) == [s EXCEPT ![Len(s)].idx = @ + 1]

\* visualizeTree up to the call printDependencyTree(result) (lines 286-340).
StartTree ==
  /\ cmd = "tree" /\ pc = "start"
  /\ IF ~Truthy(result)
     THEN /\ pc' = "done"
          /\ UNCHANGED <<out, stack>>
     ELSE /\ out' = <<NodeLine(0, "proj", "1.0.0", <<>>)>>
          /\ stack' = <<Frame(result, 0, <<>>)>>
          /\ pc' = "walk"
  /\ UNCHANGED flowVars
  /\ UNCHANGED <<cmd, result, manifests, disk, errs, packageSizes, idx,
                 suggestions, dirArg, scanned>>

\* One run of the forEach callback (lines 299-334) up to the point where it
\* either returns or calls printDependencyTree.
VisitEntry ==
  /\ cmd = "tree" /\ pc = "walk"
  /\ Top.idx <= Len(Top.deps.ents)
  /\ LET name == Top.deps.ents[Top.idx][1]
         info == Top.deps.ents[Top.idx][2]
         path == Top.path \o <<name>>
     IN  IF name = "dependencies"
         THEN /\ stack' = Append(Advance(stack), Frame(info, Top.level, Top.path))
              /\ out' = out
         ELSE /\ out' = out \o <<NodeLine(Top.level, name, VersionOf(info), path)>>
                            \o PeerLines(Top.level, name, path)
              /\ stack' = IF Truthy(Get(info, "dependencies"))
                          THEN Append(Advance(stack),
                                      Frame(Get(info, "dependencies"),
                                            Top.level + 1, path))
                          ELSE Advance(stack)
  /\ UNCHANGED flowVars
  /\ UNCHANGED <<cmd, result, manifests, disk, pc, errs, packageSizes, idx,
                 suggestions, dirArg, scanned>>

\* A printDependencyTree call has run out of entries and returns (line 335).
ReturnFromCall ==
  /\ cmd = "tree" /\ pc = "walk"
  /\ Top.idx > Len(Top.deps.ents)
  /\ stack' = SubSeq(stack, 1, Len(stack) - 1)
  /\ pc' = IF Len(stack) = 1 THEN "done" ELSE "walk"
  /\ UNCHANGED flowVars
  /\ UNCHANGED <<cmd, result, manifests, disk, out, errs, packageSizes, idx,
                 suggestions, dirArg, scanned>>

InitTree ==
  /\ cmd = "tree"
  /\ FlowIdle
  /\ result \in Results(MaxNodes) \cup {Null}
  /\ manifests \in ManifestTables
  /\ disk = <<>>
  /\ pc = "start"
  /\ stack = <<>>
  /\ out = <<>>
  /\ errs = <<>>
  /\ packageSizes = <<>>
  /\ idx = 1
  /\ suggestions = <<>>
  /\ dirArg = <<>>
  /\ scanned = <<>>

NextTree == StartTree \/ VisitEntry \/ ReturnFromCall

SpecTree == InitTree /\ [][NextTree]_vars

\* ---------------------------------------------- what the input tree holds

RECURSIVE PathsUnder(_, _)
\* The root-to-node paths of the package nodes under a dependencies value.
PathsUnder(deps, prefix) ==
  IF deps.kind # "obj" THEN {}
  ELSE UNION { {prefix \o <<deps.ents[i][1]>>}
               \cup PathsUnder(Get(deps.ents[i][2], "dependencies"),
                               prefix \o <<deps.ents[i][1]>>) :
               i \in 1..Len(deps.ents) }

PackagePaths == PathsUnder(Get(result, "dependencies"), <<>>)

RECURSIVE SumOver(_, _)
\* The sum of f[x] over the finite set S.
SumOver(S, f) ==
  IF S = {} THEN 0
  ELSE LET x == CHOOSE y \in S : TRUE IN f[x] + SumOver(S \ {x}, f)

\* Peer dependencies declared by the packages of the tree, one per node and peer.
DeclaredPeers ==
  SumOver(PackagePaths,
          [p \in PackagePaths |->
             IF ReadManifest(p[Len(p)]).readable
             THEN Len(ReadManifest(p[Len(p)]).peers) ELSE 0])

LinesOfKind(k) == {i \in 1..Len(out) : out[i].kind = k}

HasRepeat(s) == \E i, j \in 1..Len(s) : i < j /\ s[i] = s[j]

\* ------------------------------------------------------ claims, tree view

\* C1: once the tree view is done with an input object of N package nodes (the
\* root counted), it has written exactly N node lines and one annotation line
\* per peer dependency declared by a package of the tree, and every line was
\* written for the root or for a package, none for another key of the input.
C1_ExactlyNodeAndPeerLines ==
  (cmd = "tree" /\ pc = "done" /\ result.kind = "obj") =>
    /\ Cardinality(LinesOfKind("node")) = NodeCount(result)
    /\ Cardinality(LinesOfKind("peer")) = DeclaredPeers
    /\ \A i \in 1..Len(out) : out[i].path \in PackagePaths \cup {<<>>}

\* C2: every line written for a node of the input is indented by the node's
\* depth (in units of two spaces; root 0, its direct dependencies 1, and so
\* on), and a peer annotation of a node at depth d is indented d + 1.
C2_IndentIsDepth ==
  cmd = "tree" =>
    \A i \in 1..Len(out) :
      out[i].path \in PackagePaths \cup {<<>>} =>
        out[i].indent = Len(out[i].path) + (IF out[i].kind = "peer" THEN 1 ELSE 0)

\* C3: the renderer never recurses into a node that is already on the current
\* root-to-node path: no active call is for the dependencies of a package whose
\* name already occurs among its ancestors.
C3_NoReentryOnPath ==
  cmd = "tree" => \A k \in 1..Len(stack) : ~HasRepeat(stack[k].path)

\* ------------------------------------------------- directories on disk
\* A node of the file system is [kind, size, readable, ents]: a regular file of
\* size bytes; a directory whose ents are its <<name, node>> entries in
\* readdirSync order (readable FALSE: readdirSync throws on it); or a symbolic
\* link whose ents holds its target node (<<>>: the target is missing).

File(s) == [kind |-> "file", size |-> s, readable |-> TRUE, ents |-> <<>>]

Dir(e) == [kind |-> "dir", size |-> 0, readable |-> TRUE, ents |-> e]

UnreadableDir == [kind |-> "dir", size |-> 0, readable |-> FALSE, ents |-> <<>>]

Link(t) == [kind |-> "link", size |-> 0, readable |-> TRUE, ents |-> t]

\* fs.existsSync(depPath) is false.
Missing == [kind |-> "missing", size |-> 0, readable |-> FALSE, ents |-> <<>>]

\* fs.statSync(filePath) throws: statSync follows links, a missing target is ENOENT.
StatThrows(node) == node.kind = "link" /\ node.ents = <<>>

\* What fs.statSync(filePath) describes (line 363): statSync follows a symbolic
\* link, so the Stats are those of the target and isSymbolicLink() is false.
Stat(node) == IF node.kind = "link" THEN node.ents[1] ELSE node

\* (units / 25 / (1024 * 1024)).toFixed(2), in hundredths: nearest, ties upward.
ToFixed2(units) == (2 * units + 262144) \div 524288

RECURSIVE getTotalSizeInMB(_, _)
RECURSIVE ScanFrom(_, _, _, _, _)
\* The for loop of lines 358-374 from entry i on, totalSize so far in 1/25 byte.
\* threw: statSync threw, which leaves the loop for the catch of line 375.
ScanFrom(ents, path, i, totalSize, log) ==
  IF i > Len(ents) THEN [threw |-> FALSE, totalSize |-> totalSize, log |-> log]
  ELSE IF ents[i][1] = ".git" THEN ScanFrom(ents, path, i + 1, totalSize, log)
  ELSE IF StatThrows(ents[i][2])
       THEN [threw |-> TRUE, totalSize |-> totalSize, log |-> log]
  ELSE LET stats == Stat(ents[i][2])
       IN  IF stats.kind = "dir"
           THEN LET dirSize == getTotalSizeInMB(stats, path \o <<ents[i][1]>>)
                IN  ScanFrom(ents, path, i + 1,
                             totalSize + dirSize.mb * 262144, log \o dirSize.log)
           ELSE ScanFrom(ents, path, i + 1, totalSize + 25 * stats.size, log)

\* getTotalSizeInMB(dirPath) (lines 354-380): mb is the returned value in
\* hundredths of a megabyte, log the "Error reading <path>" lines it printed.
getTotalSizeInMB(dir, dirPath) ==
  IF dir.kind # "dir" \/ ~dir.readable
  THEN [mb |-> 0, log |-> << [kind |-> "error", path |-> dirPath] >>]
  ELSE LET r == ScanFrom(dir.ents, dirPath, 1, 0, <<>>)
       IN  IF r.threw
           THEN [mb |-> 0, log |-> r.log \o << [kind |-> "error", path |-> dirPath] >>]
           ELSE [mb |-> ToFixed2(r.totalSize), log |-> r.log]

\* ------------------------------------- getTotalSizeInMB on one directory

\* Most entries of the scanned directory, and of a directory inside it.
MaxEntries == 2

MaxSubEntries == 1

ScanSizes == {100, 6000, 1048576, 2097152}

EntryNames == <<"e1", "e2", "e3", "e4">>

SeqsUpTo(S, n) == UNION {[1..k -> S] : k \in 0..n}

\* Entries get their names from their position, but for a ".git" entry.
Named(items) ==
  [i \in 1..Len(items) |->
     <<IF items[i][1] = "" THEN EntryNames[i] ELSE items[i][1], items[i][2]>>]

LeafItems ==
  {<<"", File(s)>> : s \in ScanSizes}
  \cup {<<"", Link(<<File(6000)>>)>>,
        <<"", Link(<<Dir(<< <<"e1", File(6000)>> >>)>>)>>,
        <<"", Link(<<>>)>>}

SubDirItems(m) ==
  {<<"", Dir(Named(e))>> : e \in SeqsUpTo(LeafItems, m)}
  \cup {<<"", UnreadableDir>>}

GitItem == <<".git", Dir(<< <<"e1", File(1048576)>> >>)>>

\* Directories of at most n entries, the directories among them of at most m.
ScanDirs(n, m) ==
  {Dir(Named(e)) : e \in SeqsUpTo(LeafItems \cup SubDirItems(m) \cup {GitItem}, n)}
  \cup {UnreadableDir}

\* One application of getTotalSizeInMB to dirArg.
ScanDir ==
  /\ cmd = "scan" /\ pc = "start"
  /\ scanned' = getTotalSizeInMB(dirArg, <<"root">>)
  /\ pc' = "done"
  /\ UNCHANGED flowVars
  /\ UNCHANGED <<cmd, result, manifests, disk, stack, out, errs, packageSizes,
                 idx, suggestions, dirArg>>

InitScan ==
  /\ cmd = "scan"
  /\ FlowIdle
  /\ dirArg \in ScanDirs(MaxEntries, MaxSubEntries)
  /\ scanned = [mb |-> 0, log |-> <<>>]
  /\ result = Null
  /\ manifests = <<>>
  /\ disk = <<>>
  /\ pc = "start"
  /\ stack = <<>>
  /\ out = <<>>
  /\ errs = <<>>
  /\ packageSizes = <<>>
  /\ idx = 1
  /\ suggestions = <<>>

NextScan == ScanDir

SpecScan == InitScan /\ [][NextScan]_vars

\* ------------------------------------------ what a directory really holds

RECURSIVE FileBytes(_)
\* Bytes of the regular files under a directory, ".git" entries left out and
\* symbolic links not followed.
FileBytes(node) ==
  IF node.kind = "file" THEN node.size
  ELSE IF node.kind = "dir"
  THEN SumOver({i \in 1..Len(node.ents) : node.ents[i][1] # ".git"},
               [i \in 1..Len(node.ents) |-> FileBytes(node.ents[i][2])])
  ELSE 0

RECURSIVE FullyReadable(_)
\* Every directory below can be listed and no entry is a symbolic link.
FullyReadable(node) ==
  /\ node.kind \in {"file", "dir"}
  /\ node.readable
  /\ \A i \in 1..Len(node.ents) : FullyReadable(node.ents[i][2])

RECURSIVE WithoutLinks(_)
\* The same directory with every symbolic link removed.
WithoutLinks(node) ==
  IF node.kind # "dir" THEN node
  ELSE [node EXCEPT !.ents =
          LET keep == SelectSeq(node.ents, LAMBDA e : e[2].kind # "link")
          IN  [i \in 1..Len(keep) |-> <<keep[i][1], WithoutLinks(keep[i][2])>>]]

RECURSIVE HasLink(_)
HasLink(node) ==
  \/ node.kind = "link"
  \/ \E i \in 1..Len(node.ents) : HasLink(node.ents[i][2])

\* ------------------------------------------------ claims, size aggregator

\* C4: for a directory tree that is readable throughout (and holds no links),
\* getTotalSizeInMB yields the exact byte sum of its regular files, ".git"
\* left out, converted to megabytes and rounded once: bytes are neither
\* rounded nor lost at the directory levels between.
C4_ExactByteSumRoundedOnce ==
  (cmd = "scan" /\ pc = "done" /\ FullyReadable(dirArg)) =>
    scanned.mb = ToFixed2(25 * FileBytes(dirArg))

\* C5: a symbolic link in the scanned subtree contributes nothing and changes
\* nothing: the scan yields what it yields for the same subtree without its
\* links, whatever the links point to.
C5_SymlinkContributesZero ==
  (cmd = "scan" /\ pc = "done") =>
    scanned.mb = getTotalSizeInMB(WithoutLinks(dirArg), <<"root">>).mb

\* -------------------------------------------------------------- size view

\* Most direct dependencies in the size view's input.
MaxDeps == 2

LedgerNames == {"pkgA", "pkgB", "pkgC"}

PkgSizes == {100, 6000, 7000, 3145728, 5242880, 10485760, 10485761}

\* What node_modules/<dep> can be: absent, or a directory.
InstallStates ==
  {Missing, UnreadableDir, Dir(<<>>)}
  \cup {Dir(<< <<"e1", File(s)>> >>) : s \in PkgSizes}
  \cup {Dir(<< <<"e1", File(6000)>>, <<"e2", File(6000)>> >>),
        Dir(<< <<"e1", Dir(<< <<"e1", File(6000)>> >>)>>,
               <<"e2", Dir(<< <<"e1", File(6000)>> >>)>> >>)}

DistinctSeqs(S, n) ==
  {q \in SeqsUpTo(S, n) : \A i, j \in 1..Len(q) : i # j => q[i] # q[j]}

\* A dependencies object with the given keys, in that order.
DepsObject(names) ==
  Obj([i \in 1..Len(names) |-> <<names[i], PkgInfo("1.0.0", FALSE, <<>>)>>])

\* Inputs of the size and suggestion views: the object may lack `dependencies`.
ResultsOver(S, n) ==
  {Obj(<< <<"version", Str("1.0.0")>>, <<"name", Str("proj")>> >>)}
  \cup {Obj(<< <<"version", Str("1.0.0")>>, <<"name", Str("proj")>>,
               <<"dependencies", DepsObject(q)>> >>) : q \in DistinctSeqs(S, n)}

\* The size record of one dependency: the callback of .map (lines 384-392).
\* rec is {name, size}, log what it wrote to stderr.
SizeRecord(dep) ==
  IF disk[dep].kind = "missing"
  THEN [rec |-> [name |-> dep, size |-> 0],
        log |-> << [kind |-> "warning", path |-> <<dep>>] >>]
  ELSE LET size == getTotalSizeInMB(disk[dep], <<dep>>)
       IN  [rec |-> [name |-> dep, size |-> size.mb], log |-> size.log]

\* NonZero with the filter left out.
NonZeroDropped(recs) == recs

\* .filter((pkg) => pkg.size > 0)   (line 393)
NonZero(recs) == SelectSeq(recs, LAMBDA pkg : pkg.size > 0)

RECURSIVE SortBySizeDesc(_)
\* .sort((a, b) => b.size - a.size)  (line 394); Array.prototype.sort is stable.
SortBySizeDesc(recs) ==
  IF Len(recs) <= 1 THEN recs
  ELSE LET rest == SortBySizeDesc(Tail(recs))
           k == Cardinality({i \in 1..Len(rest) : rest[i].size > Head(recs).size})
       IN  SubSeq(rest, 1, k) \o <<Head(recs)>> \o SubSeq(rest, k + 1, Len(rest))

\* The color of lines 398-400, size in hundredths of a megabyte.
ColorOf(size) ==
  IF size > 1000 THEN "red" ELSE IF size > 500 THEN "yellow" ELSE "green"

\* packageSizes.reduce((sum, pkg) => sum + pkg.size, 0)   (line 407)
TotalSize(recs) ==
  SumOver(1..Len(recs), [i \in 1..Len(recs) |-> recs[i].size])

\* Lines 397-411: one line per record, then the count and the total.
LedgerLines(recs) ==
  [i \in 1..Len(recs) |->
     [kind |-> "record", name |-> recs[i].name, size |-> recs[i].size,
      color |-> ColorOf(recs[i].size)]]
  \o << [kind |-> "count", name |-> "", size |-> Len(recs), color |-> ""],
        [kind |-> "total", name |-> "", size |-> TotalSize(recs), color |-> ""] >>

\* analyzeSize up to Object.keys(result.dependencies) (lines 348-383);
\* Object.keys(undefined) throws a TypeError, which nothing catches.
StartSize ==
  /\ cmd = "size" /\ pc = "start"
  /\ pc' = IF ~Truthy(result) THEN "done"
           ELSE IF Get(result, "dependencies").kind # "obj" THEN "threw"
           ELSE "map"
  /\ UNCHANGED flowVars
  /\ UNCHANGED <<cmd, result, manifests, disk, stack, out, errs, packageSizes,
                 idx, suggestions, dirArg, scanned>>

\* One run of the .map callback.
MapDep ==
  /\ cmd = "size" /\ pc = "map"
  /\ idx <= Len(Get(result, "dependencies").ents)
  /\ LET r == SizeRecord(Keys(Get(result, "dependencies"))[idx])
     IN  /\ packageSizes' = Append(packageSizes, r.rec)
         /\ errs' = errs \o r.log
  /\ idx' = idx + 1
  /\ UNCHANGED flowVars
  /\ UNCHANGED <<cmd, result, manifests, disk, pc, stack, out, suggestions,
                 dirArg, scanned>>

\* The rest of analyzeSize: filter, sort, print (lines 393-411).
ReportSizes ==
  /\ cmd = "size" /\ pc = "map"
  /\ idx > Len(Get(result, "dependencies").ents)
  /\ packageSizes' = SortBySizeDesc(NonZero(packageSizes))
  /\ out' = LedgerLines(packageSizes')
  /\ pc' = "done"
  /\ UNCHANGED flowVars
  /\ UNCHANGED <<cmd, result, manifests, disk, stack, errs, idx, suggestions,
                 dirArg, scanned>>

InitSize ==
  /\ cmd = "size"
  /\ FlowIdle
  /\ result \in ResultsOver(LedgerNames, MaxDeps) \cup {Null}
  /\ disk \in [LedgerNames -> InstallStates]
  /\ \A n \in LedgerNames :
       n \notin SeqRange(Keys(Get(result, "dependencies"))) => disk[n] = Missing
  /\ manifests = <<>>
  /\ pc = "start"
  /\ stack = <<>>
  /\ out = <<>>
  /\ errs = <<>>
  /\ packageSizes = <<>>
  /\ idx = 1
  /\ suggestions = <<>>
  /\ dirArg = <<>>
  /\ scanned = <<>>

NextSize == StartSize \/ MapDep \/ ReportSizes

SpecSize == InitSize /\ [][NextSize]_vars

\* ------------------------------------------------------ claims, size view

RecordLines == {i \in 1..Len(out) : out[i].kind = "record"}

LinesNaming(dep) == {i \in RecordLines : out[i].name = dep}

WarningsNaming(dep) ==
  {j \in 1..Len(errs) : errs[j] = [kind |-> "warning", path |-> <<dep>>]}

\* The tier the byte size of a package calls for: boundaries at 5 MB and 10 MB.
TierOfBytes(bytes) ==
  IF bytes > 10 * 1048576 THEN "red"
  ELSE IF bytes > 5 * 1048576 THEN "yellow" ELSE "green"

\* C6: the tier shown with every displayed package is decided by the package's
\* size in bytes alone: above 10 MB high (red), above 5 MB and at most 10 MB
\* medium (yellow), at most 5 MB low (green).
C6_TierFromBytes ==
  cmd = "size" =>
    \A i \in RecordLines : out[i].color = TierOfBytes(FileBytes(disk[out[i].name]))

\* Only regular files, directly in the install directory: the per-directory
\* rounding of nested directories plays no part in such a package's size.
FlatInstall(node) ==
  node.kind = "dir" /\ node.readable
  /\ \A i \in 1..Len(node.ents) : node.ents[i][2].kind = "file"

\* C7: the reported count is the number of displayed records, and the reported
\* total is the sum of the displayed packages' sizes in bytes, rounded once
\* (stated for packages whose files lie directly in their install directory).
C7_CountAndTotalOfDisplayed ==
  (/\ cmd = "size" /\ pc = "done" /\ Get(result, "dependencies").kind = "obj"
   /\ \A i \in RecordLines : FlatInstall(disk[out[i].name])) =>
    /\ out[Len(out) - 1].kind = "count"
    /\ out[Len(out) - 1].size = Cardinality(RecordLines)
    /\ out[Len(out)].kind = "total"
    /\ out[Len(out)].size =
         ToFixed2(25 * SumOver(RecordLines,
                               [i \in RecordLines |-> FileBytes(disk[out[i].name])]))

\* C8: when the size view is done, every direct dependency whose install
\* directory does not exist has drawn exactly one warning naming it and has no
\* displayed record; every other dependency that measured above zero has
\* exactly one record, with its measured size; and the count and the total are
\* those of the displayed records alone.
C8_MissingInstallWarnedNotListed ==
  (cmd = "size" /\ pc = "done" /\ Get(result, "dependencies").kind = "obj") =>
    /\ \A dep \in SeqRange(Keys(Get(result, "dependencies"))) :
         IF disk[dep].kind = "missing"
         THEN /\ Cardinality(WarningsNaming(dep)) = 1
              /\ LinesNaming(dep) = {}
         ELSE /\ WarningsNaming(dep) = {}
              /\ getTotalSizeInMB(disk[dep], <<dep>>).mb > 0 =>
                   /\ Cardinality(LinesNaming(dep)) = 1
                   /\ \A i \in LinesNaming(dep) :
                        out[i].size = getTotalSizeInMB(disk[dep], <<dep>>).mb
    /\ Len(out) = Cardinality(RecordLines) + 2
    /\ out[Len(out) - 1] =
         [kind |-> "count", name |-> "", size |-> Cardinality(RecordLines), color |-> ""]
    /\ out[Len(out)] =
         [kind |-> "total", name |-> "",
          size |-> SumOver(RecordLines, [i \in RecordLines |-> out[i].size]),
          color |-> ""]

\* pkgA holds 3 MB, pkgB is not installed: one record, count 1, total 3.00 MB,
\* one warning.
C8_Witness ==
  /\ cmd = "size" /\ pc = "done"
  /\ Keys(Get(result, "dependencies")) = <<"pkgA", "pkgB">>
  /\ disk["pkgA"] = Dir(<< <<"e1", File(3145728)>> >>)
  /\ disk["pkgB"] = Missing
  /\ out = << [kind |-> "record", name |-> "pkgA", size |-> 300, color |-> "green"],
              [kind |-> "count", name |-> "", size |-> 1, color |-> ""],
              [kind |-> "total", name |-> "", size |-> 300, color |-> ""] >>
  /\ errs = << [kind |-> "warning", path |-> <<"pkgB">>] >>

\* -------------------------------------------------------- suggestion view

\* Most direct dependencies in the suggestion view's input.
MaxSuggestDeps == 3

SuggestNames == {"moment", "lodash", "axios", "left-pad", "constructor"}

\* The table of lines 418-449, as own property name :> value.
largeDeps ==
  [k \in {"moment", "luxon", "lodash", "ramda", "axios", "superagent",
          "string.js", "sprintf-js", "jquery", "zepto", "chart.js", "d3",
          "validator", "joi", "redux", "mobx", "moment-timezone",
          "fullcalendar", "animejs", "socket.io", "react-router", "highcharts",
          "plotly.js", "dropzone", "mathjs", "numeral", "sharp", "fabric",
          "bootstrap", "tailwindcss"} |->
     CASE k = "moment" -> "date-fns"        [] k = "luxon" -> "dayjs"
       [] k = "lodash" -> "lodash-es"       [] k = "ramda" -> "ramda-adjunct"
       [] k = "axios" -> "fetch"            [] k = "superagent" -> "undici"
       [] k = "string.js" -> "string"       [] k = "sprintf-js" -> "tiny-sprintf"
       [] k = "jquery" -> "vanilla JS"      [] k = "zepto" -> "vanilla JS"
       [] k = "chart.js" -> "chartist"      [] k = "d3" -> "chart.js"
       [] k = "validator" -> "is.js"        [] k = "joi" -> "yup"
       [] k = "redux" -> "valtio"           [] k = "mobx" -> "effector"
       [] k = "moment-timezone" -> "timezone-mock"
       [] k = "fullcalendar" -> "flatpickr" [] k = "animejs" -> "gsap"
       [] k = "socket.io" -> "ws"           [] k = "react-router" -> "wouter"
       [] k = "highcharts" -> "chart.js"    [] k = "plotly.js" -> "chartist"
       [] k = "dropzone" -> "fine-uploader" [] k = "mathjs" -> "decimal.js"
       [] k = "numeral" -> "vanilla JS"     [] k = "sharp" -> "image-size"
       [] k = "fabric" -> "konva"           [] k = "bootstrap" -> "bulma"
       [] k = "tailwindcss" -> "tachyons"]

\* The properties an object literal inherits from Object.prototype, each with
\* the text a template literal turns its value into.
ObjectPrototype ==
  [k \in {"constructor", "toString", "toLocaleString", "valueOf",
          "hasOwnProperty", "isPrototypeOf", "propertyIsEnumerable",
          "__defineGetter__", "__defineSetter__", "__lookupGetter__",
          "__lookupSetter__", "__proto__"} |->
     IF k = "constructor" THEN "function Object() { [native code] }"
     ELSE IF k = "__proto__" THEN "[object Object]"
     ELSE "function () { [native code] }"]

\* largeDeps[dep] of lines 457-458: the own property, else the inherited one,
\* else undefined ("").  Every value of either table is truthy.
Lookup(dep) ==
  IF dep \in DOMAIN largeDeps THEN largeDeps[dep]
  ELSE IF dep \in DOMAIN ObjectPrototype THEN ObjectPrototype[dep]
  ELSE ""

\* suggestAlternatives up to Object.entries(root) (lines 451-456);
\* Object.entries(undefined) throws a TypeError, which nothing catches.
StartSuggest ==
  /\ cmd = "suggest" /\ pc = "start"
  /\ pc' = IF ~Truthy(result) THEN "done"
           ELSE IF Get(result, "dependencies").kind # "obj" THEN "threw"
           ELSE "match"
  /\ UNCHANGED flowVars
  /\ UNCHANGED <<cmd, result, manifests, disk, stack, out, errs, packageSizes,
                 idx, suggestions, dirArg, scanned>>

\* One run of the forEach callback (lines 456-460).
MatchDep ==
  /\ cmd = "suggest" /\ pc = "match"
  /\ idx <= Len(Get(result, "dependencies").ents)
  /\ LET dep == Keys(Get(result, "dependencies"))[idx]
     IN  suggestions' =
           IF Lookup(dep) # ""
           THEN Append(suggestions, [installed |-> dep, suggested |-> Lookup(dep)])
           ELSE suggestions
  /\ idx' = idx + 1
  /\ UNCHANGED flowVars
  /\ UNCHANGED <<cmd, result, manifests, disk, pc, stack, out, errs,
                 packageSizes, dirArg, scanned>>

\* Lines 462-466: the messages, or the line saying there are none.
PrintSuggestions ==
  /\ cmd = "suggest" /\ pc = "match"
  /\ idx > Len(Get(result, "dependencies").ents)
  /\ out' = IF Len(suggestions) = 0
            THEN << [kind |-> "none", installed |-> "", suggested |-> ""] >>
            ELSE [i \in 1..Len(suggestions) |->
                    [kind |-> "suggestion", installed |-> suggestions[i].installed,
                     suggested |-> suggestions[i].suggested]]
  /\ pc' = "done"
  /\ UNCHANGED flowVars
  /\ UNCHANGED <<cmd, result, manifests, disk, stack, errs, packageSizes, idx,
                 suggestions, dirArg, scanned>>

InitSuggest ==
  /\ cmd = "suggest"
  /\ FlowIdle
  /\ result \in ResultsOver(SuggestNames, MaxSuggestDeps) \cup {Null}
  /\ manifests = <<>>
  /\ disk = <<>>
  /\ pc = "start"
  /\ stack = <<>>
  /\ out = <<>>
  /\ errs = <<>>
  /\ packageSizes = <<>>
  /\ idx = 1
  /\ suggestions = <<>>
  /\ dirArg = <<>>
  /\ scanned = <<>>

NextSuggest == StartSuggest \/ MatchDep \/ PrintSuggestions

SpecSuggest == InitSuggest /\ [][NextSuggest]_vars

\* ------------------------------------------------ the three views together

Init == InitTree \/ InitSize \/ InitSuggest

Next == NextTree \/ NextSize \/ NextSuggest

Spec == Init /\ [][Next]_vars

\* ------------------------------------------------ claims, suggestion view

\* The dependency names that are keys of the table, in the input's order, each
\* with the table's substitute.
TableMatches ==
  LET hits == SelectSeq(Keys(Get(result, "dependencies")),
                        LAMBDA dep : dep \in DOMAIN largeDeps)
  IN  [i \in 1..Len(hits) |-> [installed |-> hits[i], suggested |-> largeDeps[hits[i]]]]

\* C9: the suggestions are exactly one for each dependency name that is a key
\* of the substitution table, in the input's order, and none for any other name.
C9_SuggestionsAreTableKeys ==
  (cmd = "suggest" /\ pc = "done" /\ Get(result, "dependencies").kind = "obj") =>
    suggestions = TableMatches

\* ------------------------------------------------- claims, all three views

RECURSIVE InfoAt(_, _)
\* The node of the input at a path of package names under a dependencies value.
InfoAt(deps, path) ==
  IF Len(path) = 1 THEN Get(deps, path[1])
  ELSE InfoAt(Get(Get(deps, path[1]), "dependencies"), Tail(path))

\* C10: an input object that lacks a field raises no error in any view: the
\* tree view shows a node without version as "unknown", and without
\* `dependencies` the size view reports the empty ledger and the suggestion
\* view reports that there are no suggestions.
C10_MissingFieldRaisesNothing ==
  result.kind = "obj" =>
    /\ pc # "threw"
    /\ cmd = "tree" =>
         \A i \in LinesOfKind("node") :
           (out[i].path \in PackagePaths
            /\ Get(InfoAt(Get(result, "dependencies"), out[i].path), "version").kind
                 = "undefined")
             => out[i].version = "unknown"
    /\ (pc = "done" /\ Get(result, "dependencies").kind # "obj") =>
         /\ cmd = "size" => out = LedgerLines(<<>>)
         /\ cmd = "suggest" =>
              out = << [kind |-> "none", installed |-> "", suggested |-> ""] >>

\* ------------------------------------- claims, read failures during a scan

RECURSIVE FailingPaths(_, _)
\* The paths under a directory at which a read fails: a directory readdirSync
\* cannot list, an entry statSync cannot describe.  ".git" entries are never
\* read; a link to a directory is read through, as the scan does.
FailingPaths(dir, dirPath) ==
  IF dir.kind # "dir" \/ ~dir.readable THEN {dirPath}
  ELSE UNION { IF dir.ents[i][1] = ".git" THEN {}
               ELSE IF StatThrows(dir.ents[i][2]) THEN {dirPath \o <<dir.ents[i][1]>>}
               ELSE IF Stat(dir.ents[i][2]).kind = "dir"
                    THEN FailingPaths(Stat(dir.ents[i][2]), dirPath \o <<dir.ents[i][1]>>)
                    ELSE {} :
               i \in 1..Len(dir.ents) }

RECURSIVE WithoutFailing(_)
\* The same directory with every failing entry contributing nothing: an entry
\* statSync cannot describe is gone, a directory that cannot be listed is empty.
WithoutFailing(node) ==
  IF node.kind = "link"
  THEN Link([i \in 1..Len(node.ents) |-> WithoutFailing(node.ents[i])])
  ELSE IF node.kind # "dir" THEN node
  ELSE IF ~node.readable THEN Dir(<<>>)
  ELSE LET keep == SelectSeq(node.ents, LAMBDA e : ~StatThrows(e[2]))
       IN  Dir([i \in 1..Len(keep) |-> <<keep[i][1], WithoutFailing(keep[i][2])>>])

\* C11: a read failure at one path is confined to that path: the scan yields
\* what it yields with the failing entries contributing zero (every other entry
\* of the enclosing directories still counted), and it prints exactly one
\* error line for each failing path and none for any other path.
C11_ReadFailureConfined ==
  (cmd = "scan" /\ pc = "done") =>
    /\ scanned.mb = getTotalSizeInMB(WithoutFailing(dirArg), <<"root">>).mb
    /\ \A p \in FailingPaths(dirArg, <<"root">>) :
         Cardinality({j \in 1..Len(scanned.log) : scanned.log[j].path = p}) = 1
    /\ \A j \in 1..Len(scanned.log) :
         scanned.log[j].path \in FailingPaths(dirArg, <<"root">>)

\* ----------------------------------------- claims, order and filter of the ledger

\* Position of a dependency in the manager-reported dependency set.
FirstSeen(dep) ==
  CHOOSE k \in 1..Len(Get(result, "dependencies").ents) :
    Keys(Get(result, "dependencies"))[k] = dep

\* C12: the displayed records are in order of non-increasing size in bytes,
\* and two records of equal size are in the order in which their packages were
\* first seen in the dependency set (stated for packages whose files lie
\* directly in their install directory).
C12_DescendingBytesStable ==
  (/\ cmd = "size" /\ pc = "done" /\ Get(result, "dependencies").kind = "obj"
   /\ \A i \in RecordLines : FlatInstall(disk[out[i].name])) =>
    \A i, j \in RecordLines :
      i < j =>
        /\ FileBytes(disk[out[i].name]) >= FileBytes(disk[out[j].name])
        /\ FileBytes(disk[out[i].name]) = FileBytes(disk[out[j].name])
             => FirstSeen(out[i].name) < FirstSeen(out[j].name)

\* C14: every direct dependency whose install directory exists and whose
\* regular files total more than zero bytes has a record in the displayed
\* ledger (stated for packages whose files lie directly in their install
\* directory).
C14_NonZeroBytesDisplayed ==
  (cmd = "size" /\ pc = "done" /\ Get(result, "dependencies").kind = "obj") =>
    \A dep \in SeqRange(Keys(Get(result, "dependencies"))) :
      (FlatInstall(disk[dep]) /\ FileBytes(disk[dep]) > 0) => LinesNaming(dep) # {}

\* ------------------------------------------------------------ health check
\* checkHealth awaits one promise at a time, so it runs in turns of the event
\* loop: from the start to the first request, from a response to the next
\* request or timer, from the timer to the request it delayed.  Each action is
\* one such turn.

\* Most entries of package.json's dependencies, and of its devDependencies.
MaxManifest == 1

HealthNames == {"x", "y", "z"}

\* How a request can end (makeRequest, lines 78-95): status 200 with JSON,
\* status 429, or an error event.
Responses == {"200", "429", "error"}

\* A dependencies map of package.json: <<name, range>> entries.
RangeMaps(n, range) ==
  {[i \in 1..Len(q) |-> <<q[i], range>>] : q \in DistinctSeqs(HealthNames, n)}

PackageJsons(n) ==
  {[dependencies |-> d, devDependencies |-> v] :
     d \in RangeMaps(n, "^1.0.0"), v \in RangeMaps(n, "^2.0.0")}

\* { ...a, ...b } of lines 481-484: a's keys keep their place and take b's
\* value when b has the key, b's other keys follow in b's order.
Spread(a, b) ==
  [i \in 1..Len(a) |->
     IF \E j \in 1..Len(b) : b[j][1] = a[i][1]
     THEN <<a[i][1], b[CHOOSE j \in 1..Len(b) : b[j][1] = a[i][1]][2]>>
     ELSE a[i]]
  \o SelectSeq(b, LAMBDA e : \A i \in 1..Len(a) : a[i][1] # e[1])

\* const dependencies = { ...packageJson.dependencies, ...packageJson.devDependencies }
Dependencies == Spread(packageJson.dependencies, packageJson.devDependencies)

Request(pkg, api) == [pkg |-> pkg, api |-> api]

Event(ev, pkg, api) == [ev |-> ev, pkg |-> pkg, api |-> api]

HealthLine(kind, pkg, value) == [kind |-> kind, name |-> pkg, value |-> value]

\* The requests sent when the loop reaches a package: checkDownloads alone, and
\* checkGitHub with both lookups started together.
IssueBoth(pkg) == {Request(pkg, "downloads"), Request(pkg, "github")}

\* The requests sent when the loop reaches a package: `await checkDownloads(pkg)`
\* (line 511) calls makeRequest once; checkGitHub is not called before it resolves.
Issue(pkg) == {Request(pkg, "downloads")}

\* Lines 503-508: the rule and the name@version line of package i.
HeaderLines(i) ==
  << HealthLine("rule", "", ""),
     HealthLine("header", Dependencies[i][1], Dependencies[i][2]) >>

\* makeRequest's own line on status 429 (lines 78-82).
RateLimitLines(resp) ==
  IF resp = "429" THEN << HealthLine("ratelimit", "", "") >> ELSE <<>>

\* Lines 512-528.
DownloadsLines(pkg, resp) ==
  RateLimitLines(resp)
  \o << HealthLine("downloads", pkg, IF resp = "200" THEN "5,000,000" ELSE "N/A") >>

\* Lines 532-571; stats is null unless the request ended with status 200.
GitHubLines(pkg, resp) ==
  RateLimitLines(resp)
  \o (IF resp = "200"
      THEN << HealthLine("stars", pkg, "12,345"), HealthLine("issues", pkg, "25"),
              HealthLine("updated", pkg, "15/12/2023") >>
      ELSE << HealthLine("github", pkg, "N/A") >>)

\* The loop from the end of package idx's block (line 573) to its next await:
\* the next package's header and first request, or the closing rule (line 576).
NextPackage(lines, netNow, eventsNow) ==
  /\ idx' = idx + 1
  /\ IF idx < Len(Dependencies)
     THEN /\ out' = out \o lines \o << HealthLine("blank", "", "") >>
                        \o HeaderLines(idx + 1)
          /\ net' = netNow \cup Issue(Dependencies[idx + 1][1])
          /\ events' = Append(eventsNow,
                              Event("send", Dependencies[idx + 1][1], "downloads"))
          /\ pc' = "downloads"
     ELSE /\ out' = out \o lines \o << HealthLine("blank", "", ""),
                                        HealthLine("rule", "", "") >>
          /\ net' = netNow
          /\ events' = eventsNow
          /\ pc' = "done"

\* checkHealth from its start to the first await (lines 471-511).
StartHealth ==
  /\ cmd = "health" /\ pc = "start"
  /\ idx' = 1
  /\ IF Len(Dependencies) = 0
     THEN /\ out' = << HealthLine("rule", "", "") >>
          /\ pc' = "done"
          /\ UNCHANGED <<net, events>>
     ELSE /\ out' = HeaderLines(1)
          /\ net' = Issue(Dependencies[1][1])
          /\ events' = << Event("send", Dependencies[1][1], "downloads") >>
          /\ pc' = "downloads"
  /\ UNCHANGED <<cmd, result, manifests, disk, stack, errs, packageSizes,
                 suggestions, dirArg, scanned, packageJson, repos, selected, ran>>

\* The downloads request ends; checkGitHub runs up to its timer (lines 110-127)
\* or returns null at once when the package's manifest cannot be read or names
\* no repository.
DownloadsDone ==
  /\ cmd = "health" /\ pc = "downloads"
  /\ \E resp \in Responses :
       LET pkg == Dependencies[idx][1]
           left == net \ {Request(pkg, "downloads")}
           seen == Append(events, Event("done", pkg, "downloads"))
       IN  IF repos[pkg] = "url"
           THEN /\ out' = out \o DownloadsLines(pkg, resp)
                /\ net' = left
                /\ events' = seen
                /\ pc' = "delay"
                /\ idx' = idx
           ELSE NextPackage(DownloadsLines(pkg, resp)
                              \o << HealthLine("github", pkg, "N/A") >>, left, seen)
  /\ UNCHANGED <<cmd, result, manifests, disk, stack, errs, packageSizes,
                 suggestions, dirArg, scanned, packageJson, repos, selected, ran>>

\* The 100 ms timer of line 127 fires and the request of line 129 is sent.
DelayElapsed ==
  /\ cmd = "health" /\ pc = "delay"
  /\ net' = net \cup {Request(Dependencies[idx][1], "github")}
  /\ events' = events \o << Event("timer", Dependencies[idx][1], "github"),
                            Event("send", Dependencies[idx][1], "github") >>
  /\ pc' = "github"
  /\ UNCHANGED <<cmd, result, manifests, disk, stack, out, errs, packageSizes,
                 idx, suggestions, dirArg, scanned, packageJson, repos, selected,
                 ran>>

\* The source-hosting request ends.
GitHubDone ==
  /\ cmd = "health" /\ pc = "github"
  /\ \E resp \in Responses :
       NextPackage(GitHubLines(Dependencies[idx][1], resp),
                   net \ {Request(Dependencies[idx][1], "github")},
                   Append(events, Event("done", Dependencies[idx][1], "github")))
  /\ UNCHANGED <<cmd, result, manifests, disk, stack, errs, packageSizes,
                 suggestions, dirArg, scanned, packageJson, repos, selected, ran>>

InitHealth ==
  /\ cmd = "health"
  /\ packageJson \in PackageJsons(MaxManifest)
  /\ repos \in [HealthNames -> {"unreadable", "none", "url"}]
  /\ \A n \in HealthNames :
       (\A i \in 1..Len(Dependencies) : Dependencies[i][1] # n) => repos[n] = "unreadable"
  /\ net = {}
  /\ events = <<>>
  /\ selected = <<>>
  /\ ran = <<>>
  /\ result = Null
  /\ manifests = <<>>
  /\ disk = <<>>
  /\ pc = "start"
  /\ stack = <<>>
  /\ out = <<>>
  /\ errs = <<>>
  /\ packageSizes = <<>>
  /\ idx = 1
  /\ suggestions = <<>>
  /\ dirArg = <<>>
  /\ scanned = <<>>

NextHealth == StartHealth \/ DownloadsDone \/ DelayElapsed \/ GitHubDone

SpecHealth == InitHealth /\ [][NextHealth]_vars

\* --------------------------------------------------- claims, health check

\* The manifest's package names: dependencies, then the devDependencies that
\* are not dependencies too.
ManifestOrder ==
  LET d == packageJson.dependencies
      v == SelectSeq(packageJson.devDependencies,
                     LAMBDA e : \A i \in 1..Len(d) : d[i][1] # e[1])
  IN  [i \in 1..Len(d) |-> d[i][1]] \o [i \in 1..Len(v) |-> v[i][1]]

Sends == {k \in 1..Len(events) : events[k].ev = "send"}

\* The request sent at k has ended before position n of the history.
EndedBefore(k, n) ==
  \E d \in (k + 1)..(n - 1) :
    events[d] = Event("done", events[k].pkg, events[k].api)

Headers == SelectSeq(out, LAMBDA l : l.kind = "header")

\* The send before the one at k, 0 when k is the first.
SendBefore(k) ==
  IF \E m \in 1..(k - 1) : events[m].ev = "send"
  THEN CHOOSE m \in 1..(k - 1) :
         /\ events[m].ev = "send"
         /\ \A n \in (m + 1)..(k - 1) : events[n].ev # "send"
  ELSE 0

\* C13: during the health check at most one request is in flight; a request
\* is sent only when the request sent before it has ended (so a package's
\* download lookup ends before its source-hosting lookup starts, and nothing
\* is sent for a package before the lookups of the one before it have ended);
\* the source-hosting request of a package is sent right after its timer has
\* fired, which is after its download lookup ended; and the blocks are printed
\* in manifest order (dependencies, then devDependencies), all of them once done.
C13_OneRequestAtATime ==
  cmd = "health" =>
    LET order == ManifestOrder
        heads == Headers
        place(pkg) == CHOOSE i \in 1..Len(order) : order[i] = pkg
    IN  /\ Cardinality(net) <= 1
        /\ \A r \in net :
             \E k \in 1..Len(events) :
               /\ events[k] = Event("send", r.pkg, r.api)
               /\ ~EndedBefore(k, Len(events) + 1)
        /\ \A k \in 1..Len(events) :
             events[k].ev = "send" =>
               /\ EndedBefore(k, Len(events) + 1)
                    \/ Request(events[k].pkg, events[k].api) \in net
               /\ LET m == SendBefore(k)
                  IN  m # 0 => /\ EndedBefore(m, k)
                               /\ place(events[m].pkg) <= place(events[k].pkg)
               /\ events[k].api = "github" =>
                    /\ k > 2
                    /\ events[k - 1] = Event("timer", events[k].pkg, "github")
                    /\ events[k - 2] = Event("done", events[k].pkg, "downloads")
        /\ Len(heads) <= Len(order)
        /\ \A i \in 1..Len(heads) : heads[i].name = order[i]
        /\ pc = "done" => Len(heads) = Len(order)

\* Both lookups of a dependency and of a devDependency have run, one request
\* at a time, and the check is done.
C13_Witness ==
  /\ cmd = "health" /\ pc = "done"
  /\ Len(packageJson.dependencies) = 1 /\ Len(packageJson.devDependencies) = 1
  /\ Len(ManifestOrder) = 2
  /\ Cardinality(Sends) = 4
  /\ Len(Headers) = 2

\* ------------------------------------------------------- update and prune
\* interactiveUpdate and pruneDependencies from the answer of their checkbox
\* prompt: the loop over the selected packages and the closing line.

\* Most packages selected in the prompt.
MaxSelected == 3

UpdateNames == {"lodash", "axios", "chalk"}

FlowLine(kind, name) == [kind |-> kind, name |-> name]

\* execCommand (lines 37-54) on a command without --json: the output when the
\* command exits with 0; otherwise the catch prints to stderr and returns
\* null.  No path out of it throws.
ExecCommand(pkg, ok) ==
  IF ok
  THEN [value |-> Str("output"), thrown |-> FALSE, log |-> <<>>]
  ELSE [value |-> Null, thrown |-> FALSE,
        log |-> << FlowLine("Error executing", pkg), FlowLine("message", pkg) >>]

\* The try/catch around the command (lines 614-621, 256-264): the success mark
\* after execCommand returns, the failure mark and the error line in the catch.
MarkLines(pkg, r) ==
  IF r.thrown
  THEN << FlowLine("failure mark", pkg), FlowLine("Error", pkg) >>
  ELSE << FlowLine("success mark", pkg) >>

\* `if (selected.length)` of lines 606-608 and 250-252, and its else branch.
StartRun ==
  /\ cmd \in {"update", "prune"} /\ pc = "start"
  /\ idx' = 1
  /\ IF Len(selected) > 0
     THEN /\ out' = << FlowLine("banner", cmd) >>
          /\ pc' = "loop"
     ELSE /\ out' = << FlowLine("No packages selected", cmd) >>
          /\ pc' = "done"
  /\ UNCHANGED <<cmd, result, manifests, disk, stack, errs, packageSizes,
                 suggestions, dirArg, scanned, packageJson, repos, net, events,
                 selected, ran>>

\* One iteration of `for (const dep of selected)` (lines 610-622, 254-265).
RunCommand ==
  /\ cmd \in {"update", "prune"} /\ pc = "loop" /\ idx <= Len(selected)
  /\ \E ok \in BOOLEAN :
       LET r == ExecCommand(selected[idx], ok)
       IN  /\ out' = out \o << FlowLine("progress", selected[idx]) >>
                         \o MarkLines(selected[idx], r)
           /\ errs' = errs \o r.log
           /\ ran' = Append(ran, [name |-> selected[idx], ok |-> ok])
  /\ idx' = idx + 1
  /\ UNCHANGED <<cmd, result, manifests, disk, pc, stack, packageSizes,
                 suggestions, dirArg, scanned, packageJson, repos, net, events,
                 selected>>

\* The closing line (lines 624-629, 267-272): the count is selected.length.
ReportRun ==
  /\ cmd \in {"update", "prune"} /\ pc = "loop" /\ idx > Len(selected)
  /\ out' = Append(out, [kind |-> "Successfully", name |-> cmd,
                         count |-> Len(selected)])
  /\ pc' = "done"
  /\ UNCHANGED <<cmd, result, manifests, disk, stack, errs, packageSizes, idx,
                 suggestions, dirArg, scanned, packageJson, repos, net, events,
                 selected, ran>>

InitUpdate ==
  /\ cmd \in {"update", "prune"}
  /\ selected \in DistinctSeqs(UpdateNames, MaxSelected)
  /\ ran = <<>>
  /\ packageJson = <<>>
  /\ repos = <<>>
  /\ net = {}
  /\ events = <<>>
  /\ result = Null
  /\ manifests = <<>>
  /\ disk = <<>>
  /\ pc = "start"
  /\ stack = <<>>
  /\ out = <<>>
  /\ errs = <<>>
  /\ packageSizes = <<>>
  /\ idx = 1
  /\ suggestions = <<>>
  /\ dirArg = <<>>
  /\ scanned = <<>>

NextUpdate == StartRun \/ RunCommand \/ ReportRun

SpecUpdate == InitUpdate /\ [][NextUpdate]_vars

\* ------------------------------------------------ claims, update and prune

MarksOf(pkg, kind) ==
  {j \in 1..Len(out) : out[j] = FlowLine(kind, pkg)}

Succeeded == {k \in 1..Len(ran) : ran[k].ok}

\* C15: in the update and prune flows a package has the success mark only if
\* its command succeeded, a package whose command failed has the failure mark
\* and its error line, and the count of the closing line is the number of
\* packages whose command succeeded.
C15_MarkFollowsOutcome ==
  cmd \in {"update", "prune"} =>
    /\ \A k \in 1..Len(ran) :
         /\ MarksOf(ran[k].name, "success mark") # {} => ran[k].ok
         /\ ~ran[k].ok => /\ MarksOf(ran[k].name, "failure mark") # {}
                          /\ MarksOf(ran[k].name, "Error") # {}
    /\ \A j \in 1..Len(out) :
         out[j].kind = "Successfully" => out[j].count = Cardinality(Succeeded)

====
